---- MODULE Spec2Model ----
(***************************************************************************)
(* Model of xomxplayer.c: the select()/XPending() main loop of main(),     *)
(* keypress(), spawn() and the post-loop shutdown escalation.              *)
(*                                                                         *)
(* Process ids are small integers.  fork() and waitpid(WNOHANG) are        *)
(* environment calls: their results are chosen among the values the        *)
(* kernel can return in the current process table.  Automatic variables    *)
(* that main() declares without an initializer start with an arbitrary     *)
(* value drawn from a small set.                                           *)
(***************************************************************************)
EXTENDS Integers, Sequences, FiniteSets, TLC

----------------------------------------------------------------------------
(* Bounds of the model *)

\* evc is an unsigned long; valid ConfigureNotify events are accepted while
\* evc < MaxEvc.
MaxEvc == 2

\* Number of dbus-send children that can exist at once; fork() fails
\* (process limit) when all of them are in use.
MaxOthers == 1

----------------------------------------------------------------------------
(* Program constants *)

NotStarted == 2
Running == 1
Stopped == 0

\* while (i<3) in the shutdown sequence
WaitTries == 3

\* snprintf(winParam,30,...) : at most 29 characters are stored
WinParamSize == 30

\* hdmi resolution the scale factors are relative to
HdmiX == 1920
HdmiY == 1080

\* pid fork() gives the omxplayer child
PlayerPid == 100

\* pids fork() can give dbus-send children
OtherPids == 101..(100 + MaxOthers)

\* pid of the controller itself (getpid)
SelfPid == 50

\* values an uninitialized pid_t can hold: -1, 0, the pid of a dbus-send
\* child (no child of this process until such a child is forked), the pid of
\* the controller itself
IndetPid == {-1, 0, 101, SelfPid}

\* value of the uninitialized geometry variables; they are written (line 321)
\* before every read (line 271, under evc>0), so one value stands for all
IndetGeom == {7}

\* frame buffer resolutions read by setScale (sx = xres/1920, sy = yres/1080),
\* <<0, 0>> stands for a failed read (sx = sy = 1.0)
FbModes == {<<0, 0>>, <<960, 540>>}

\* key symbols delivered by the X server
XK_q == "q"
XK_f == "f"
XK_p == "p"
XK_s == "s"
XK_Left == "Left"
XK_Right == "Right"
XK_Page_Up == "Page_Up"
XK_Page_Down == "Page_Down"
XK_v == "v"
XK_z == "z"

quitKey == XK_q
fullScreenKey == XK_f

\* static XOMX_key keys[]
keys == << [keysym |-> XK_p,         v |-> "pause_player"],
           [keysym |-> XK_s,         v |-> "stop_player"],
           [keysym |-> XK_Left,      v |-> "seek_back_small"],
           [keysym |-> XK_Right,     v |-> "seek_forward_small"],
           [keysym |-> XK_Page_Up,   v |-> "seek_forward_large"],
           [keysym |-> XK_Page_Down, v |-> "seek_back_large"],
           [keysym |-> XK_v,         v |-> "toggle_subtitle"] >>

\* inputs: key presses, ConfigureNotify fields, visibility states
KeyInputs == {XK_q, XK_f, XK_p, XK_z}
XVals == {-1, 0, 1}
YVals == {-1, 0}
WVals == {2, 3}
HVals == {2}
VisibilityStates == {"VisibilityUnobscured", "VisibilityPartiallyObscured",
                     "VisibilityFullyObscured"}

----------------------------------------------------------------------------
(* Pure functions *)

\* ev.xconfigure.width/sx with sx=(float)xres/1920, converted to an integer.
\* For the modes of FbModes sx and sy are 1.0 or 0.5, so the float division is
\* exact and equals the integer quotient below.
ScaleX(v, fb) == IF fb[1] = 0 THEN v ELSE (v * HdmiX) \div fb[1]
ScaleY(v, fb) == IF fb[2] = 0 THEN v ELSE (v * HdmiY) \div fb[2]

\* lines 321-324: the stored geometry after a valid ConfigureNotify
Configure(e, fb) == [wx |-> ScaleX(e.x, fb), wy |-> ScaleY(e.y, fb),
                     ww |-> ScaleX(e.width, fb), wh |-> ScaleY(e.height, fb)]

\* WinParam printing the width and height instead of the far corner
WinParam_NoSum(g) ==
    LET s == ToString(g.wx) \o " " \o ToString(g.wy) \o " "
             \o ToString(g.ww) \o " " \o ToString(g.wh)
    IN  IF Len(s) < WinParamSize THEN s ELSE SubSeq(s, 1, WinParamSize - 1)

\* snprintf(winParam,30,"%i %i %i %i", wx, wy, wx+ww, wy+wh)
WinParam(g) ==
    LET s == ToString(g.wx) \o " " \o ToString(g.wy) \o " "
             \o ToString(g.wx + g.ww) \o " " \o ToString(g.wy + g.wh)
    IN  IF Len(s) < WinParamSize THEN s ELSE SubSeq(s, 1, WinParamSize - 1)

\* strncpy(resizeParam, "string:",10); strncat(resizeParam, winParam, 30)
ResizeParam(w) == "string:" \o w

\* ValidConfigure testing the x coordinate only
ValidConfigure_XOnly(e) == e.x >= 0

\* the test of case ConfigureNotify (line 320)
ValidConfigure(e) == e.x >= 0 /\ e.y >= 0

\* VisibilityCmd issuing nothing when the window is fully obscured
VisibilityCmd_NoHide(state) ==
    IF state = "VisibilityUnobscured" THEN <<"unhide_video">> ELSE << >>

\* the commands case VisibilityNotify spawns (lines 329-332)
VisibilityCmd(state) ==
    IF state = "VisibilityFullyObscured" THEN <<"hide_video">>
    ELSE IF state = "VisibilityUnobscured" THEN <<"unhide_video">>
    ELSE << >>

\* what keypress() returns for a key symbol
KeypressReturn(keysym) == IF keysym = quitKey THEN 0 ELSE 1

\* the commands keypress() spawns for a key symbol
KeypressCmd(keysym) ==
    IF keysym = quitKey THEN <<"quit_player">>
    ELSE IF keysym = fullScreenKey THEN << >>
    ELSE LET hit == {i \in 1..Len(keys) : keys[i].keysym = keysym}
         IN  IF hit = {} THEN << >>
             ELSE <<keys[CHOOSE i \in hit : \A j \in hit : i <= j].v>>

\* results fork() can give for a dbus-send child: -1 or an unused pid
ForkOther(ch) == {-1} \cup (OtherPids \ ch)

\* results fork() can give for the omxplayer child
ForkPlayer == {-1, PlayerPid}

\* fork() is called only when spawn() is: the results to choose among
ForkIf(called, results) == IF called THEN results ELSE {-1}

\* the process table after fork() returned r
AddChild(ch, r) == IF r > 0 THEN ch \cup {r} ELSE ch

\* all unreaped children of the controller
Kids(ch, pp) == ch \cup (IF pp = "child" THEN {PlayerPid} ELSE {})

\* results of waitpid(target, &status, WNOHANG)
WaitPid(target, ch, pp) ==
    IF target = -1
    THEN IF Kids(ch, pp) = {} THEN {-1} ELSE {0} \cup Kids(ch, pp)
    ELSE IF target \in Kids(ch, pp) THEN {0, target} ELSE {-1}

Cmd(c, a) == [cmd |-> c, arg |-> a]

----------------------------------------------------------------------------
VARIABLES
    pc,                \* position in main()
    argc,
    fb,                \* frame buffer mode behind sx, sy
    omxplayerRunning,
    evc,
    geom,              \* wx, wy, ww, wh
    omxplayer_pid,
    chld_pid,
    i,
    children,          \* unreaped dbus-send children
    playerProc,        \* "none", "child" (forked, not reaped), "reaped"
    exitStatus,
    \* history
    step,              \* the last step taken
    issued,            \* commands spawned by the last step
    nValid,            \* valid ConfigureNotify events since the last timeout
    lastEv,            \* the last valid ConfigureNotify event
    olderDiffers,      \* an earlier valid event since the last timeout differs from lastEv
    nStart,            \* number of times start-player was issued
    resizeFirst,       \* request-resize was issued before any start-player
    quitInIter,        \* the quit key was handled while Running in this iteration
    reapInIter,        \* this iteration's reap returned the running player
    errInIter,         \* this iteration's select returned -1
    nReap,             \* waitpid calls made by the last step
    pre,               \* omxplayerRunning, nValid, olderDiffers before the last step
    ticks,             \* one-second sleeps since the loop ended
    sdLog              \* shutdown actions: polls, signals, reports

vars == <<pc, argc, fb, omxplayerRunning, evc, geom, omxplayer_pid, chld_pid, i,
          children, playerProc, exitStatus, step, issued, nValid, lastEv,
          olderDiffers, nStart, resizeFirst, quitInIter, reapInIter, errInIter,
          nReap, pre, ticks, sdLog>>

Pre == [run |-> omxplayerRunning, n |-> nValid, older |-> olderDiffers]

NoEv == [x |-> 0, y |-> 0, width |-> 0, height |-> 0]

Init ==
    /\ pc = "start"
    /\ argc \in {1, 2}
    /\ fb = <<0, 0>>
    /\ omxplayerRunning = NotStarted
    /\ evc = 0
    /\ \E g \in IndetGeom : geom = [wx |-> g, wy |-> g, ww |-> g, wh |-> g]
    /\ omxplayer_pid \in IndetPid
    /\ chld_pid = 0      \* written (lines 286, 341) before every read
    /\ i = 0
    /\ children = {}
    /\ playerProc = "none"
    /\ exitStatus = -1
    /\ step = "init"
    /\ issued = << >>
    /\ nValid = 0
    /\ lastEv = NoEv
    /\ olderDiffers = FALSE
    /\ nStart = 0
    /\ resizeFirst = FALSE
    /\ quitInIter = FALSE
    /\ reapInIter = FALSE
    /\ errInIter = FALSE
    /\ nReap = 0
    /\ pre = [run |-> NotStarted, n |-> 0, older |-> FALSE]
    /\ ticks = 0
    /\ sdLog = << >>

----------------------------------------------------------------------------
(* main(): start *)

\* argc!=2: usage line, return 1
Usage ==
    /\ pc = "start"
    /\ argc # 2
    /\ pc' = "done"
    /\ exitStatus' = 1
    /\ step' = "usage"
    /\ issued' = << >>
    /\ pre' = Pre
    /\ nReap' = 0
    /\ UNCHANGED <<argc, fb, omxplayerRunning, evc, geom, omxplayer_pid, chld_pid,
                   i, children, playerProc, nValid, lastEv, olderDiffers, nStart,
                   resizeFirst, quitInIter, reapInIter, errInIter, ticks, sdLog>>

\* setScale, initX, and the first test of the loop condition (2 > 0)
Startup ==
    /\ pc = "start"
    /\ argc = 2
    /\ fb' \in FbModes
    /\ pc' = IF omxplayerRunning > 0 THEN "select" ELSE "sd_test"
    /\ step' = "startup"
    /\ issued' = << >>
    /\ pre' = Pre
    /\ nReap' = 0
    /\ UNCHANGED <<argc, omxplayerRunning, evc, geom, omxplayer_pid, chld_pid,
                   i, children, playerProc, exitStatus, nValid, lastEv,
                   olderDiffers, nStart, resizeFirst, quitInIter, reapInIter, errInIter,
                   ticks, sdLog>>

----------------------------------------------------------------------------
(* main(): the switch on select() *)

\* run-state after the settle code of case 0, pr being what spawn(omxplayer) returns
SettleState(run, settle, pr) ==
    IF settle /\ run = NotStarted
    THEN (IF pr < 1 THEN Stopped ELSE Running)
    ELSE run

\* SettleCmds without the else branch (no request-resize)
SettleCmds_OnlyStart(run, settle, g) ==
    IF settle /\ run = NotStarted THEN <<Cmd("omxplayer", WinParam(g))>>
    ELSE << >>

\* the commands the settle code of case 0 spawns
SettleCmds(run, settle, g) ==
    IF ~settle THEN << >>
    ELSE IF run = NotStarted THEN <<Cmd("omxplayer", WinParam(g))>>
    ELSE <<Cmd("resize_player", ResizeParam(WinParam(g)))>>

\* the reaped child is the running omxplayer (line 292)
ReapHit(run, r, pid) == r > 0 /\ run = Running /\ r = pid

\* case 0: timed out waiting for xevents
SelectTimeout ==
    /\ pc = "select"
    /\ \E pr \in ForkIf(evc > 0 /\ omxplayerRunning = NotStarted, ForkPlayer),
          fr \in ForkIf(evc > 0 /\ omxplayerRunning # NotStarted, ForkOther(children)) :
         LET settle == evc > 0
             start  == settle /\ omxplayerRunning = NotStarted
             resize == settle /\ omxplayerRunning # NotStarted
             run1   == SettleState(omxplayerRunning, settle, pr)
             pid1   == IF start THEN pr ELSE omxplayer_pid
             pp1    == IF start /\ pr > 0 THEN "child" ELSE playerProc
             ch1    == IF resize THEN AddChild(children, fr) ELSE children
         IN  \E r \in WaitPid(-1, ch1, pp1) :
               /\ issued' = SettleCmds(omxplayerRunning, settle, geom)
               /\ evc' = 0
               /\ chld_pid' = r
               /\ omxplayerRunning' = IF ReapHit(run1, r, pid1) THEN Stopped ELSE run1
               /\ omxplayer_pid' = IF ReapHit(run1, r, pid1) THEN 0 ELSE pid1
               /\ children' = ch1 \ {r}
               /\ playerProc' = IF r = PlayerPid /\ pp1 = "child" THEN "reaped" ELSE pp1
               /\ reapInIter' = (r = PlayerPid /\ pp1 = "child" /\ run1 = Running)
               /\ errInIter' = FALSE
               /\ nStart' = IF start THEN nStart + 1 ELSE nStart
               /\ resizeFirst' = (resizeFirst \/ (resize /\ nStart = 0))
    /\ pc' = "drain"
    /\ step' = "timeout"
    /\ pre' = Pre
    /\ nReap' = 1
    /\ nValid' = 0
    /\ olderDiffers' = FALSE
    /\ quitInIter' = FALSE
    /\ UNCHANGED <<argc, fb, geom, i, exitStatus, lastEv, ticks, sdLog>>

\* case -1: error occured or signal received
SelectError ==
    /\ pc = "select"
    /\ \E fr \in ForkIf(omxplayerRunning = Running, ForkOther(children)) :
         IF omxplayerRunning = Running
         THEN /\ issued' = <<Cmd("quit_player", "")>>
              /\ children' = AddChild(children, fr)
              /\ omxplayerRunning' = Stopped
         ELSE /\ issued' = << >>
              /\ UNCHANGED <<children, omxplayerRunning>>
    /\ pc' = "drain"
    /\ step' = "error"
    /\ pre' = Pre
    /\ nReap' = 0
    /\ quitInIter' = FALSE
    /\ reapInIter' = FALSE
    /\ errInIter' = TRUE
    /\ UNCHANGED <<argc, fb, evc, geom, omxplayer_pid, chld_pid, i, playerProc,
                   exitStatus, nValid, lastEv, olderDiffers, nStart, resizeFirst,
                   ticks, sdLog>>

\* SelectReady reaping finished children as case 0 does
SelectReady_Reaps ==
    /\ pc = "select"
    /\ pc' = "drain"
    /\ step' = "ready"
    /\ issued' = << >>
    /\ pre' = Pre
    /\ nReap' = 1
    /\ quitInIter' = FALSE
    /\ reapInIter' = FALSE
    /\ errInIter' = FALSE
    /\ \E r \in WaitPid(-1, children, playerProc) :
         /\ chld_pid' = r
         /\ children' = children \ {r}
         /\ playerProc' = IF r = PlayerPid /\ playerProc = "child"
                          THEN "reaped" ELSE playerProc
    /\ UNCHANGED <<argc, fb, omxplayerRunning, evc, geom, omxplayer_pid,
                   i, exitStatus, nValid, lastEv,
                   olderDiffers, nStart, resizeFirst, ticks, sdLog>>

\* select() > 0: the descriptor is readable, no case of the switch applies
SelectReady ==
    /\ pc = "select"
    /\ pc' = "drain"
    /\ step' = "ready"
    /\ issued' = << >>
    /\ pre' = Pre
    /\ nReap' = 0
    /\ quitInIter' = FALSE
    /\ reapInIter' = FALSE
    /\ errInIter' = FALSE
    /\ UNCHANGED <<argc, fb, omxplayerRunning, evc, geom, omxplayer_pid, chld_pid,
                   i, children, playerProc, exitStatus, nValid, lastEv,
                   olderDiffers, nStart, resizeFirst, ticks, sdLog>>

----------------------------------------------------------------------------
(* main(): while(XPending(dis)) { XNextEvent(dis, &ev); switch (ev.type) } *)

\* case KeyPress: omxplayerRunning=keypress(&ev)
KeyPress(keysym) ==
    /\ pc = "drain"
    /\ \E fr \in ForkIf(KeypressCmd(keysym) # << >>, ForkOther(children)) :
         /\ issued' = [n \in 1..Len(KeypressCmd(keysym)) |->
                          Cmd(KeypressCmd(keysym)[n], "")]
         /\ children' = IF KeypressCmd(keysym) = << >> THEN children
                        ELSE AddChild(children, fr)
    /\ omxplayerRunning' = KeypressReturn(keysym)
    /\ quitInIter' = (quitInIter \/ (keysym = quitKey /\ omxplayerRunning = Running))
    /\ step' = IF keysym = quitKey THEN "quitkey"
               ELSE IF keysym = fullScreenKey THEN "fskey" ELSE "key"
    /\ pre' = Pre
    /\ nReap' = 0
    /\ UNCHANGED <<pc, argc, fb, evc, geom, omxplayer_pid, chld_pid, i, playerProc,
                   exitStatus, nValid, lastEv, olderDiffers, nStart, resizeFirst,
                   reapInIter, errInIter, ticks, sdLog>>

\* case ClientMessage
ClientMessage(isDelete) ==
    /\ pc = "drain"
    /\ \E fr \in ForkIf(isDelete, ForkOther(children)) :
         IF isDelete
         THEN /\ issued' = <<Cmd("quit_player", "")>>
              /\ children' = AddChild(children, fr)
              /\ omxplayerRunning' = Stopped
         ELSE /\ issued' = << >>
              /\ UNCHANGED <<children, omxplayerRunning>>
    /\ step' = "client"
    /\ pre' = Pre
    /\ nReap' = 0
    /\ UNCHANGED <<pc, argc, fb, evc, geom, omxplayer_pid, chld_pid, i, playerProc,
                   exitStatus, nValid, lastEv, olderDiffers, nStart, resizeFirst,
                   quitInIter, reapInIter, errInIter, ticks, sdLog>>

\* case ConfigureNotify
ConfigureNotify(e) ==
    /\ pc = "drain"
    /\ IF ValidConfigure(e)
       THEN /\ evc < MaxEvc
            /\ geom' = Configure(e, fb)
            /\ evc' = evc + 1
       ELSE UNCHANGED <<geom, evc>>
    /\ IF e.x >= 0 /\ e.y >= 0
       THEN /\ nValid < MaxEvc
            /\ nValid' = nValid + 1
            /\ lastEv' = e
            /\ olderDiffers' = (nValid > 0 /\ (olderDiffers \/ e # lastEv))
            /\ step' = IF step = "VisibilityFullyObscured"
                       THEN "configure_hidden" ELSE "configure"
       ELSE /\ step' = "badconfigure"
            /\ UNCHANGED <<nValid, lastEv, olderDiffers>>
    /\ issued' = << >>
    /\ pre' = Pre
    /\ nReap' = 0
    /\ UNCHANGED <<pc, argc, fb, omxplayerRunning, omxplayer_pid, chld_pid, i,
                   children, playerProc, exitStatus, nStart, resizeFirst,
                   quitInIter, reapInIter, errInIter, ticks, sdLog>>

\* case VisibilityNotify
VisibilityNotify(state) ==
    /\ pc = "drain"
    /\ \E fr \in ForkIf(VisibilityCmd(state) # << >>, ForkOther(children)) :
         /\ issued' = [n \in 1..Len(VisibilityCmd(state)) |->
                          Cmd(VisibilityCmd(state)[n], "")]
         /\ children' = IF VisibilityCmd(state) = << >> THEN children
                        ELSE AddChild(children, fr)
    /\ step' = state
    /\ pre' = Pre
    /\ nReap' = 0
    /\ UNCHANGED <<pc, argc, fb, omxplayerRunning, evc, geom, omxplayer_pid,
                   chld_pid, i, playerProc, exitStatus, nValid, lastEv,
                   olderDiffers, nStart, resizeFirst, quitInIter, reapInIter, errInIter,
                   ticks, sdLog>>

\* an event of a type the switch has no case for (MapNotify, ReparentNotify, ...)
OtherEvent ==
    /\ pc = "drain"
    /\ step' = "other"
    /\ issued' = << >>
    /\ pre' = Pre
    /\ nReap' = 0
    /\ UNCHANGED <<pc, argc, fb, omxplayerRunning, evc, geom, omxplayer_pid,
                   chld_pid, i, children, playerProc, exitStatus, nValid, lastEv,
                   olderDiffers, nStart, resizeFirst, quitInIter, reapInIter, errInIter,
                   ticks, sdLog>>

\* DrainDone forgetting the supervised pid
DrainDone_ForgetsPid ==
    /\ pc = "drain"
    /\ pc' = IF omxplayerRunning > 0 THEN "select" ELSE "sd_test"
    /\ step' = IF step \in {"timeout", "error", "ready"}
               THEN "drained_empty" ELSE "drained"
    /\ issued' = << >>
    /\ pre' = Pre
    /\ nReap' = 0
    /\ omxplayer_pid' = 0
    /\ UNCHANGED <<argc, fb, omxplayerRunning, evc, geom, chld_pid,
                   i, children, playerProc, exitStatus, nValid, lastEv,
                   olderDiffers, nStart, resizeFirst, quitInIter, reapInIter, errInIter,
                   ticks, sdLog>>

\* XPending(dis) returns 0, then the loop condition omxplayerRunning > 0
DrainDone ==
    /\ pc = "drain"
    /\ pc' = IF omxplayerRunning > 0 THEN "select" ELSE "sd_test"
    /\ step' = IF step \in {"timeout", "error", "ready"}
               THEN "drained_empty" ELSE "drained"
    /\ issued' = << >>
    /\ pre' = Pre
    /\ nReap' = 0
    /\ UNCHANGED <<argc, fb, omxplayerRunning, evc, geom, omxplayer_pid, chld_pid,
                   i, children, playerProc, exitStatus, nValid, lastEv,
                   olderDiffers, nStart, resizeFirst, quitInIter, reapInIter, errInIter,
                   ticks, sdLog>>

ConfigureEvents == [x : XVals, y : YVals, width : WVals, height : HVals]

----------------------------------------------------------------------------
(* main(): shutdown sequence after the loop *)

Log(a, p, t, r) == [act |-> a, pid |-> p, t |-> t, r |-> r]

\* the process table after waitpid() returned r
Reaped(ch, r) == ch \ {r}
ReapedPlayer(pp, r) == IF r = PlayerPid /\ pp = "child" THEN "reaped" ELSE pp

histKeep == <<nValid, lastEv, olderDiffers, nStart, resizeFirst, quitInIter, reapInIter, errInIter>>

\* if (omxplayer_pid != 0) { i=0; ... } else "stopped unexpectedly"
SdTest ==
    /\ pc = "sd_test"
    /\ IF omxplayer_pid # 0
       THEN /\ i' = 0
            /\ pc' = "sd_wait"
            /\ UNCHANGED sdLog
       ELSE /\ sdLog' = Append(sdLog, Log("unexpected", 0, ticks, 0))
            /\ pc' = "cleanup"
            /\ UNCHANGED i
    /\ step' = "sd_test"
    /\ issued' = << >>
    /\ pre' = Pre
    /\ nReap' = 0
    /\ UNCHANGED <<argc, fb, omxplayerRunning, evc, geom, omxplayer_pid, chld_pid,
                   children, playerProc, exitStatus, ticks>>
    /\ UNCHANGED histKeep

\* one pass of while (i<3): waitpid, break or sleep(1), i++
SdWait ==
    /\ pc = "sd_wait"
    /\ i < WaitTries
    /\ \E r \in WaitPid(omxplayer_pid, children, playerProc) :
         /\ chld_pid' = r
         /\ children' = Reaped(children, r)
         /\ playerProc' = ReapedPlayer(playerProc, r)
         /\ sdLog' = Append(sdLog, Log("poll", omxplayer_pid, ticks, r))
         /\ IF r > 0
            THEN /\ pc' = "sd_check"
                 /\ UNCHANGED <<i, ticks>>
            ELSE /\ ticks' = ticks + 1
                 /\ i' = i + 1
                 /\ pc' = IF i + 1 < WaitTries THEN "sd_wait" ELSE "sd_check"
    /\ step' = "sd_wait"
    /\ issued' = << >>
    /\ pre' = Pre
    /\ nReap' = 1
    /\ UNCHANGED <<argc, fb, omxplayerRunning, evc, geom, omxplayer_pid, exitStatus>>
    /\ UNCHANGED histKeep

\* NotReaped ignoring the result of the last poll
NotReaped_Always(c, p) == TRUE

\* the test made before each escalation (lines 349, 354, 359)
NotReaped(c, p) == c # p

\* status of a process terminated by the signal
SignalStatus(sig) == IF sig = "SIGTERM" THEN 128 + 15 ELSE 128 + 9

\* kill(omxplayer_pid, sig) with the controller's own pid: no handler is
\* installed, the signal terminates the controller
KillsSelf(sig) ==
    /\ sdLog' = Append(sdLog, Log(sig, omxplayer_pid, ticks, 0))
    /\ pc' = "killed"
    /\ exitStatus' = SignalStatus(sig)
    /\ UNCHANGED <<ticks, chld_pid, children, playerProc>>

\* Escalate without the sleep(1) between the signal and the re-check
Escalate_NoSleep(sig, next) ==
    IF omxplayer_pid = SelfPid THEN KillsSelf(sig)
    ELSE \E r \in WaitPid(omxplayer_pid, children, playerProc) :
      /\ sdLog' = sdLog \o << Log(sig, omxplayer_pid, ticks, 0),
                              Log("poll", omxplayer_pid, ticks, r) >>
      /\ ticks' = ticks
      /\ chld_pid' = r
      /\ children' = Reaped(children, r)
      /\ playerProc' = ReapedPlayer(playerProc, r)
      /\ pc' = next
      /\ UNCHANGED exitStatus

\* a signal, sleep(1) and the re-check that follow a failed test
Escalate(sig, next) ==
    IF omxplayer_pid = SelfPid THEN KillsSelf(sig)
    ELSE \E r \in WaitPid(omxplayer_pid, children, playerProc) :
      /\ sdLog' = sdLog \o << Log(sig, omxplayer_pid, ticks, 0),
                              Log("poll", omxplayer_pid, ticks + 1, r) >>
      /\ ticks' = ticks + 1
      /\ chld_pid' = r
      /\ children' = Reaped(children, r)
      /\ playerProc' = ReapedPlayer(playerProc, r)
      /\ pc' = next
      /\ UNCHANGED exitStatus

\* if (chld_pid != omxplayer_pid): SIGTERM, sleep(1), waitpid
SdTerm ==
    /\ pc = "sd_check"
    /\ IF NotReaped(chld_pid, omxplayer_pid)
       THEN Escalate("SIGTERM", "sd_check2")
       ELSE /\ pc' = "cleanup"
            /\ UNCHANGED <<sdLog, ticks, chld_pid, children, playerProc, exitStatus>>
    /\ step' = "sd_term"
    /\ issued' = << >>
    /\ pre' = Pre
    /\ nReap' = IF NotReaped(chld_pid, omxplayer_pid) /\ omxplayer_pid # SelfPid
                THEN 1 ELSE 0
    /\ UNCHANGED <<argc, fb, omxplayerRunning, evc, geom, omxplayer_pid, i>>
    /\ UNCHANGED histKeep

\* if (chld_pid != omxplayer_pid): SIGKILL, sleep(1), waitpid
SdKill ==
    /\ pc = "sd_check2"
    /\ IF NotReaped(chld_pid, omxplayer_pid)
       THEN Escalate("SIGKILL", "sd_check3")
       ELSE /\ pc' = "cleanup"
            /\ UNCHANGED <<sdLog, ticks, chld_pid, children, playerProc, exitStatus>>
    /\ step' = "sd_kill"
    /\ issued' = << >>
    /\ pre' = Pre
    /\ nReap' = IF NotReaped(chld_pid, omxplayer_pid) /\ omxplayer_pid # SelfPid
                THEN 1 ELSE 0
    /\ UNCHANGED <<argc, fb, omxplayerRunning, evc, geom, omxplayer_pid, i>>
    /\ UNCHANGED histKeep

\* if (chld_pid != omxplayer_pid): "Can't stop omxplayer!"
SdLeak ==
    /\ pc = "sd_check3"
    /\ sdLog' = IF NotReaped(chld_pid, omxplayer_pid)
                THEN Append(sdLog, Log("cantstop", omxplayer_pid, ticks, 0))
                ELSE sdLog
    /\ pc' = "cleanup"
    /\ step' = "sd_leak"
    /\ issued' = << >>
    /\ pre' = Pre
    /\ nReap' = 0
    /\ UNCHANGED <<argc, fb, omxplayerRunning, evc, geom, omxplayer_pid, chld_pid,
                   i, children, playerProc, exitStatus, ticks>>
    /\ UNCHANGED histKeep

\* XDestroyWindow, XCloseDisplay, return 0
Cleanup ==
    /\ pc = "cleanup"
    /\ pc' = "done"
    /\ exitStatus' = 0
    /\ step' = "cleanup"
    /\ issued' = << >>
    /\ pre' = Pre
    /\ nReap' = 0
    /\ UNCHANGED <<argc, fb, omxplayerRunning, evc, geom, omxplayer_pid, chld_pid,
                   i, children, playerProc, ticks, sdLog>>
    /\ UNCHANGED histKeep

----------------------------------------------------------------------------
Next ==
    \/ Usage
    \/ Startup
    \/ SelectTimeout
    \/ SelectError
    \/ SelectReady
    \/ \E k \in KeyInputs : KeyPress(k)
    \/ \E d \in BOOLEAN : ClientMessage(d)
    \/ \E e \in ConfigureEvents : ConfigureNotify(e)
    \/ \E v \in VisibilityStates : VisibilityNotify(v)
    \/ OtherEvent
    \/ DrainDone
    \/ SdTest
    \/ SdWait
    \/ SdTerm
    \/ SdKill
    \/ SdLeak
    \/ Cleanup

Spec == Init /\ [][Next]_vars

----------------------------------------------------------------------------
(* Properties *)

\* the steps that end an iteration: XPending returned 0 at once, or after events
Drained == {"drained_empty", "drained"}

IsPrefix(s, t) == Len(s) <= Len(t) /\ SubSeq(t, 1, Len(s)) = s

Repositioning == {"omxplayer", "resize_player"}

\* "x y x+width y+height" of a geometry in player coordinates
GeometryString(g) ==
    ToString(g.wx) \o " " \o ToString(g.wy) \o " "
    \o ToString(g.wx + g.ww) \o " " \o ToString(g.wy + g.wh)

\* C1: a timeout that follows N >= 1 valid geometry events issues exactly one
\* repositioning command (start-player or request-resize), and its geometry
\* string is x, y, x+width, y+height of the last of these events (in player
\* coordinates, i.e. after the division by the scale factors).
C1_Debounce ==
    (step = "timeout" /\ pre.n >= 1) =>
        /\ Len(issued) = 1
        /\ issued[1].cmd \in Repositioning
        /\ issued[1].cmd = "omxplayer" =>
              issued[1].arg = GeometryString(Configure(lastEv, fb))
        /\ issued[1].cmd = "resize_player" =>
              issued[1].arg = "string:" \o GeometryString(Configure(lastEv, fb))

\* a settle after two or more valid events, an earlier one differing from the last
C1_Witness ==
    /\ step = "timeout"
    /\ pre.n >= 2
    /\ pre.older
    /\ Len(issued) = 1
    /\ issued[1].cmd \in Repositioning

\* C2: the first settle issues start-player, no request-resize is issued before
\* start-player, and start-player is issued at most once.
C2_StartBeforeResize == ~resizeFirst /\ nStart <= 1

\* C3: a quit key handled while Running issues request-quit once and leaves the
\* state Stopped, and the iteration that handled it ends with the state Stopped
\* and the loop left, whatever events followed the quit key.
C3_QuitStopsIteration ==
    /\ (step = "quitkey" /\ pre.run = Running) =>
          (issued = <<Cmd("quit_player", "")>> /\ omxplayerRunning = Stopped)
    /\ (step \in Drained /\ quitInIter) =>
          (omxplayerRunning = Stopped /\ pc = "sd_test")

\* C4: the run-state only moves forward NotStarted -> Running -> Stopped; once
\* Stopped, no step changes it back.
C4_StoppedTerminal == [][omxplayerRunning' <= omxplayerRunning]_vars

\* C5: handling the fullscreen key, a bound non-quit key or an unmatched key
\* leaves the run-state as it was, in each of the three states.
C5_KeyKeepsState ==
    step \in {"fskey", "key"} => omxplayerRunning = pre.run

\* start-player was issued and fork returned -1
SpawnFailed == nStart = 1 /\ playerProc = "none"

\* C6: when the start-player spawn fails outright, the state goes to Stopped and
\* the shutdown does no poll and sends no signal: its only action is the report
\* that the supervised process stopped unexpectedly.
C6_SpawnFailure ==
    SpawnFailed =>
        /\ (step = "timeout" /\ issued # << >> /\ issued[1].cmd = "omxplayer") =>
              omxplayerRunning = Stopped
        /\ \A n \in 1..Len(sdLog) : sdLog[n].act = "unexpected"
        /\ pc = "done" => Len(sdLog) = 1

\* the shutdown of a player that is never reaped: three polls, one second apart,
\* SIGTERM after 3 sleeps, SIGKILL after 4, the report after 5
NeverReapedLog ==
    << Log("poll", PlayerPid, 0, 0), Log("poll", PlayerPid, 1, 0),
       Log("poll", PlayerPid, 2, 0), Log("SIGTERM", PlayerPid, 3, 0),
       Log("poll", PlayerPid, 4, 0), Log("SIGKILL", PlayerPid, 4, 0),
       Log("poll", PlayerPid, 5, 0), Log("cantstop", PlayerPid, 5, 0) >>

\* C7: if the player was spawned and is never reaped, the shutdown sends the
\* terminate signal after exactly 3 one-second sleeps (3 failed polls), the kill
\* signal after exactly 4 and reports the leak after exactly 5, in this order.
C7_ShutdownTicks ==
    playerProc = "child" =>
        /\ IsPrefix(sdLog, NeverReapedLog)
        /\ pc \in {"cleanup", "done"} => sdLog = NeverReapedLog

\* the shutdown ended with the player still not reaped
C7_Witness ==
    /\ pc = "cleanup"
    /\ playerProc = "child"
    /\ Len(sdLog) = Len(NeverReapedLog)
    /\ ticks = 5

\* C8: when a timeout's reap returns the running player, the state is Stopped
\* and the pid forgotten, and the loop ends at the end of that iteration,
\* whatever events are drained after the reap.
C8_ReapEndsLoop ==
    /\ (step = "timeout" /\ reapInIter) =>
          (omxplayerRunning = Stopped /\ omxplayer_pid = 0)
    /\ (step \in Drained /\ reapInIter) =>
          (omxplayerRunning = Stopped /\ pc = "sd_test")

\* C9: a timeout with no valid geometry event since the previous timeout issues
\* no command and leaves the run-state unchanged unless its reap returned the
\* supervised player.
C9_ZeroCounterTimeout ==
    (step = "timeout" /\ pre.n = 0) =>
        /\ issued = << >>
        /\ omxplayerRunning = pre.run \/ reapInIter

\* C10: a ConfigureNotify event with a negative x or y leaves the change counter
\* and the stored geometry unchanged and issues no command.
C10_NegativeIgnored ==
    [][step' = "badconfigure" =>
          (evc' = evc /\ geom' = geom /\ issued' = << >>)]_vars

\* a negative event handled while a geometry is stored and counted
C10_Witness ==
    /\ step = "badconfigure"
    /\ evc >= 1
    /\ geom = Configure(lastEv, fb)

\* C11: a VisibilityFullyObscured event issues hide-overlay (and a
\* VisibilityUnobscured event show-overlay) in the step that dequeues it, inside
\* the drain; a valid geometry event handled right after it issues nothing,
\* leaves the spawned command's process alone and changes only the stored
\* geometry and the change counter.
C11_VisibilityImmediate ==
    [][/\ step' = "VisibilityFullyObscured" =>
            /\ pc = "drain" /\ pc' = "drain"
            /\ issued' = <<Cmd("hide_video", "")>>
       /\ step' = "VisibilityUnobscured" =>
            /\ pc = "drain" /\ pc' = "drain"
            /\ issued' = <<Cmd("unhide_video", "")>>
       /\ step' = "configure_hidden" =>
            /\ step = "VisibilityFullyObscured"
            /\ issued = <<Cmd("hide_video", "")>>
            /\ issued' = << >>
            /\ evc' = evc + 1
            /\ geom' = Configure(lastEv', fb)
            /\ UNCHANGED <<pc, omxplayerRunning, omxplayer_pid, chld_pid,
                           children, playerProc>>]_vars

\* a geometry event handled right after a hide-overlay whose process was forked
C11_Witness ==
    /\ step = "configure_hidden"
    /\ children # {}
    /\ evc >= 1
    /\ pc = "drain"

\* C12: after a poll error the loop ends without polling again: when Running,
\* request-quit is issued once and the state becomes Stopped, and in every state
\* the iteration of the error is the last one.
C12_PollErrorEndsLoop ==
    /\ (step = "error" /\ pre.run = Running) =>
          (issued = <<Cmd("quit_player", "")>> /\ omxplayerRunning = Stopped)
    /\ (step \in Drained /\ errInIter) => pc = "sd_test"

Count(log, a) == Cardinality({n \in 1..Len(log) : log[n].act = a})

\* C13: once the loop has ended the shutdown finishes and main returns 0, after
\* at most 5 sleeps, 5 polls, one terminate and one kill signal.
C13_ShutdownReturnsZero ==
    /\ ticks <= 5
    /\ Count(sdLog, "poll") <= 5
    /\ Count(sdLog, "SIGTERM") <= 1
    /\ Count(sdLog, "SIGKILL") <= 1
    /\ pc # "killed"
    /\ (pc = "done" /\ argc = 2) => exitStatus = 0

\* C14: every iteration of the main loop performs exactly one non-blocking reap,
\* whatever select returned.
C14_ReapEveryIteration ==
    step \in {"timeout", "error", "ready"} => nReap = 1

\* C14 (amended): an iteration reaps exactly once when select timed out, and not
\* at all when select reported an event or an error.
C14_ReapOnTimeoutOnly ==
    /\ step = "timeout" => nReap = 1
    /\ (pc \in {"select", "drain"} /\ step # "timeout") => nReap = 0

\* select reported an event while a child waits to be reaped: no reap is made
C14_Witness ==
    /\ step = "ready"
    /\ nReap = 0
    /\ Kids(children, playerProc) # {}

\* C15: a drain that finds the queue empty handles no event, issues no command
\* and leaves geometry, change counter, run-state and pids unchanged (so doing
\* it twice is the same as doing it once).
C15_EmptyDrain ==
    [][step' = "drained_empty" =>
          /\ step \in {"timeout", "error", "ready"}
          /\ issued' = << >>
          /\ nReap' = 0
          /\ UNCHANGED <<geom, evc, omxplayerRunning, omxplayer_pid, chld_pid,
                         children, playerProc>>]_vars

\* an empty drain with a counted geometry change and a running player
C15_Witness ==
    /\ step = "drained_empty"
    /\ evc >= 1
    /\ omxplayerRunning = Running
    /\ playerProc = "child"

\* the player was forked
SpawnedPlayer == nStart = 1 /\ playerProc # "none"

Signals == {"SIGTERM", "SIGKILL"}

\* C16: in the shutdown of a spawned player, SIGTERM is sent only after 3 polls
\* that did not reap it, SIGKILL only after SIGTERM and one more such poll, the
\* poll that reaps the player is the last shutdown action, and signals go to the
\* player's pid only.
C16_SignalsFollowReaps ==
    SpawnedPlayer =>
      \A n \in 1..Len(sdLog) :
        /\ sdLog[n].act = "SIGTERM" =>
              /\ n = WaitTries + 1
              /\ \A m \in 1..WaitTries : sdLog[m].act = "poll" /\ sdLog[m].r <= 0
        /\ sdLog[n].act = "SIGKILL" =>
              /\ n >= 3
              /\ sdLog[n-2].act = "SIGTERM"
              /\ sdLog[n-1].act = "poll" /\ sdLog[n-1].r <= 0
        /\ sdLog[n].act \in Signals => sdLog[n].pid = PlayerPid
        /\ (sdLog[n].act = "poll" /\ sdLog[n].r > 0) =>
              (sdLog[n].r = PlayerPid /\ n = Len(sdLog))
        /\ sdLog[n].act = "cantstop" => playerProc = "child"

\* the player is reaped by the poll that follows SIGTERM
C16_Witness ==
    /\ SpawnedPlayer
    /\ pc = "cleanup"
    /\ Len(sdLog) = WaitTries + 2
    /\ sdLog[WaitTries + 1].act = "SIGTERM"
    /\ sdLog[WaitTries + 2].r = PlayerPid
    /\ playerProc = "reaped"

\* C17: the change counter is zero after every timeout branch, it equals the
\* number of valid geometry events since the previous timeout, and a timeout
\* entered with a non-zero counter issues a command.
C17_CounterReset ==
    /\ evc = nValid
    /\ step = "timeout" => evc = 0
    /\ (step = "timeout" /\ pre.n > 0) => Len(issued) >= 1

\* a settle whose spawn failed: the counter is zero all the same
C17_Witness ==
    /\ step = "timeout"
    /\ pre.n >= 1
    /\ evc = 0
    /\ SpawnFailed
    /\ issued # << >>

\* C18: a timeout whose reap returns a child other than the supervised player
\* leaves the run-state and the supervised pid as the settle code left them.
C18_OtherChildReaped ==
    [][(step' = "timeout" /\ chld_pid' > 0 /\ chld_pid' \in children
        /\ ~(evc > 0 /\ omxplayerRunning = NotStarted)) =>
          UNCHANGED <<omxplayerRunning, omxplayer_pid>>]_vars

\* C19: the run-state is Running only if start-player was issued and the pid
\* the spawner returned is still stored as the supervised pid.
C19_RunningMeansSpawned ==
    omxplayerRunning = Running =>
        (nStart = 1 /\ omxplayer_pid = PlayerPid /\ playerProc # "none")

\* C20: omxplayer_pid is assigned (by start-player) before it is read by the
\* shutdown test or by the reap comparison, and a loop that ends before the
\* first settle is followed by the 'stopped unexpectedly' report only.
C20_PidAssignedBeforeRead ==
    /\ step = "sd_test" => nStart = 1
    /\ (step = "timeout" /\ chld_pid > 0 /\ pre.run = Running) => nStart = 1
    /\ (pc \in {"cleanup", "done", "killed"} /\ argc = 2 /\ nStart = 0) =>
          sdLog = <<Log("unexpected", 0, 0, 0)>>

====
